---- MODULE Spec2Model ----
(***************************************************************************)
(* Model of the karen backend: the pattern router (intent_router.py) and   *)
(* the LangGraph pipeline (graph.py) that turns one utterance plus the     *)
(* caller's task / time-block state into a reply and a list of actions.   *)
(*                                                                         *)
(* External capabilities are nondeterministic inputs: the spaCy parse of   *)
(* the utterance (tokens with lower-case text, part of speech, punctuation *)
(* flag and entity label), the reasoning engine's reply text, and the      *)
(* similarity ranking of the embedding engine.                             *)
(*                                                                         *)
(* graph.py reads app_state.timeBlocks and imports TimeBlock; the model    *)
(* follows graph.py's view of the request (tasks, time blocks, chat).      *)
(***************************************************************************)
EXTENDS Integers, Sequences, FiniteSets, TLC

\* ------------------------------------------------------------------ bounds
\* longest utterance, in tokens
MaxTokens == 3
\* most tasks in a request
MaxTasks == 2
\* most time blocks in a request
MaxBlocks == 1
\* longest action list the reasoning engine returns
MaxActions == 2
\* most calls of run_intent_router made one after the other on one utterance
MaxRouterCalls == 2
\* most items in a collection handed to a similarity search called directly
MaxItems == 3
\* largest top_k handed to a similarity search called directly
MaxTopK == 3

\* ------------------------------------------------------ parsed utterances
\* A token of the spaCy Doc: lower_ , pos_ , is_punct , is_space and the
\* label of the entity it belongs to ("" when it belongs to none).
Tok(l, p, pu, sp, e) ==
    [lower |-> l, pos |-> p, is_punct |-> pu, is_space |-> sp, ent |-> e]

W_add      == Tok("add", "VERB", FALSE, FALSE, "")
W_addN     == Tok("add", "NOUN", FALSE, FALSE, "")
W_delete   == Tok("delete", "VERB", FALSE, FALSE, "")
W_mark     == Tok("mark", "VERB", FALSE, FALSE, "")
W_a        == Tok("a", "DET", FALSE, FALSE, "")
W_task     == Tok("task", "NOUN", FALSE, FALSE, "")
W_to       == Tok("to", "PART", FALSE, FALSE, "")
W_milk     == Tok("milk", "NOUN", FALSE, FALSE, "")
W_it       == Tok("it", "PRON", FALSE, FALSE, "")
W_urgent   == Tok("urgent", "ADJ", FALSE, FALSE, "")
W_tomorrow == Tok("tomorrow", "NOUN", FALSE, FALSE, "DATE")
W_sarah    == Tok("sarah", "PROPN", FALSE, FALSE, "PERSON")
W_address  == Tok("address", "NOUN", FALSE, FALSE, "")
W_bang     == Tok("!", "PUNCT", TRUE, FALSE, "")
W_space    == Tok(" ", "SPACE", FALSE, TRUE, "")

\* tokens of the utterances the tests send, beyond the vocabulary
W_get      == Tok("get", "VERB", FALSE, FALSE, "")
W_rid      == Tok("rid", "VERB", FALSE, FALSE, "")
W_of       == Tok("of", "ADP", FALSE, FALSE, "")
W_the      == Tok("the", "DET", FALSE, FALSE, "")
W_gym      == Tok("gym", "NOUN", FALSE, FALSE, "")
W_meeting  == Tok("meeting", "NOUN", FALSE, FALSE, "")
W_as       == Tok("as", "ADP", FALSE, FALSE, "")
W_done     == Tok("done", "VERB", FALSE, FALSE, "")

\* every token the parser can produce in the model
Vocab ==
    { W_add, W_addN, W_delete, W_mark, W_a, W_task, W_to, W_milk, W_it,
      W_urgent, W_tomorrow, W_sarah, W_address, W_bang, W_space }

DocsOver(V) == UNION { [1..n -> V] : n \in 1..MaxTokens }

\* ------------------------------------------------------------- patterns
\* One token specification of a Matcher pattern.  An empty LOWER / POS set
\* means the attribute is not constrained; PUNCT is "any", "yes" or "no".
Pat(l, p, pu, op) == [LOWER |-> l, POS |-> p, PUNCT |-> pu, OP |-> op]

create_pattern ==
    << Pat({"add", "create", "make"}, {"VERB"}, "any", "1"),
       Pat({"a", "an", "the"}, {}, "any", "?"),
       Pat({"task", "reminder", "item", "entry"}, {}, "any", "?"),
       Pat({"to", "for"}, {}, "any", "?"),
       Pat({}, {"VERB", "NOUN"}, "any", "+"),
       Pat({}, {}, "no", "*") >>

delete_pattern ==
    << Pat({"delete", "remove", "get rid of", "cancel"}, {"VERB"}, "any", "1"),
       Pat({}, {}, "no", "*") >>

toggle_pattern ==
    << Pat({"mark", "toggle", "finish", "finished", "complete", "completed", "did"},
           {"VERB", "AUX"}, "any", "1"),
       Pat({}, {}, "no", "*") >>

\* the rules in the order they are added to the matcher
Rules ==
    << [label |-> "CREATE_TASK", pattern |-> create_pattern],
       [label |-> "DELETE_TASK", pattern |-> delete_pattern],
       [label |-> "TOGGLE_TASK", pattern |-> toggle_pattern] >>

\* does token t satisfy the token specification p
TokenMatches(p, t) ==
    /\ (p.LOWER = {} \/ t.lower \in p.LOWER)
    /\ (p.POS = {} \/ t.pos \in p.POS)
    /\ (p.PUNCT = "any" \/ (p.PUNCT = "no" /\ ~t.is_punct)
                        \/ (p.PUNCT = "yes" /\ t.is_punct))

\* The positions at which a match of pat[k..] that starts at token i can end
\* (exclusive).  once = the specification k has already consumed a token.
RECURSIVE MatchEnds(_, _, _, _, _)
MatchEnds(doc, pat, k, i, once) ==
    IF k > Len(pat) THEN {i}
    ELSE LET p    == pat[k]
             ok   == i <= Len(doc) /\ TokenMatches(p, doc[i])
             skip == IF p.OP \in {"?", "*"} \/ (p.OP = "+" /\ once)
                     THEN MatchEnds(doc, pat, k + 1, i, FALSE) ELSE {}
             take == IF ~ok THEN {}
                     ELSE IF p.OP \in {"+", "*"}
                          THEN MatchEnds(doc, pat, k, i + 1, TRUE)
                          ELSE MatchEnds(doc, pat, k + 1, i + 1, FALSE)
         IN  skip \cup take

\* matcher(doc, as_spans=True): every span [start, end) that a rule matches
MatcherSpans(doc) ==
    { [label |-> Rules[r].label, start |-> s, end |-> e] :
        <<r, s, e>> \in
          { x \in (DOMAIN Rules) \X (1..Len(doc)) \X (2..(Len(doc) + 1)) :
              /\ x[3] > x[2]
              /\ x[3] \in MatchEnds(doc, Rules[x[1]].pattern, 1, x[2], FALSE) } }

RuleIndex(label) == CHOOSE r \in DOMAIN Rules : Rules[r].label = label

\* sort key of spacy.util.filter_spans: longer first, then earlier start;
\* equal keys keep the matcher's order
SpanBefore(a, b) ==
    \/ (a.end - a.start) > (b.end - b.start)
    \/ (a.end - a.start) = (b.end - b.start) /\ a.start < b.start
    \/ (a.end - a.start) = (b.end - b.start) /\ a.start = b.start
         /\ RuleIndex(a.label) < RuleIndex(b.label)

Overlap(a, b) == a.start < b.end /\ b.start < a.end

RECURSIVE FilterRec(_, _)
FilterRec(rest, taken) ==
    IF rest = {} THEN taken
    ELSE LET best == CHOOSE a \in rest : \A b \in rest \ {a} : SpanBefore(a, b)
         IN  IF \E t \in taken : Overlap(best, t)
             THEN FilterRec(rest \ {best}, taken)
             ELSE FilterRec(rest \ {best}, taken \cup {best})

\* spacy.util.filter_spans: the chosen spans (returned sorted by start)
filter_spans(spans) == FilterRec(spans, {})

\* matches[0] of the filtered list: the chosen span that starts first
FirstSpan(spans) == CHOOSE a \in spans : \A b \in spans : a.start <= b.start

\* ------------------------------------------------------------- values
\* Identifiers are pairs <<kind, n>>: a task of the request, a time block
\* of the request, a freshly generated uuid, an identifier that names
\* nothing in the request, JSON null, the empty string, a missing key.
TaskId(i)  == <<"task", i>>
BlockId(j) == <<"block", j>>
Uuid(n)    == <<"uuid", n>>
GhostId    == <<"ghost", 0>>
NullId     == <<"null", 0>>
EmptyId    == <<"empty", 0>>
Absent     == <<"absent", 0>>

\* a reply text: its kind and the title it quotes (<<>> when it quotes none)
Reply(k, a) == [kind |-> k, arg |-> a]
NoReply     == Reply("none", <<>>)
EmptyReply  == Reply("empty", <<>>)

\* the value of an actions field: a list of entries, None, or another value
ActionList(items) == [kind |-> "list", items |-> items]
NoActions         == [kind |-> "none", items |-> <<>>]
NotAList          == [kind |-> "other", items |-> <<>>]

\* One entry of an action list.  dict = the entry is a JSON object; id is
\* payload.id; has_task / task_id / title describe payload.task;
\* has_updated = payload.updatedTask is present.  Missing keys are Absent.
Action(d, ty, id, ht, tid, title, hu) ==
    [dict |-> d, action_type |-> ty, id |-> id, has_task |-> ht,
     task_id |-> tid, title |-> title, has_updated |-> hu]

NoTitle == << >>

\* ------------------------------------------------------ run_intent_router
RouterResult(i, p, r) == [intent |-> i, payload |-> p, response |-> r]
Fallback_time_block == RouterResult("DELETE_TIME_BLOCK", NoActions, NoReply)
Fallback == RouterResult("AGENT_FALLBACK", NoActions, NoReply)

\* doc.ents holds an entity the reasoning engine should handle
HasComplexEntity(doc) ==
    \E i \in DOMAIN doc : doc[i].ent \in {"DATE", "TIME", "CARDINAL", "ORDINAL"}

\* the priority-word test with "urgent" left out of the list
HasPriorityWord_no_urgent(doc) ==
    \E i \in DOMAIN doc : doc[i].lower \in {"priority", "deadline"}

\* a token of the doc is one of the priority words
HasPriorityWord(doc) ==
    \E i \in DOMAIN doc : doc[i].lower \in {"priority", "deadline", "urgent"}

\* index of the first VERB / NOUN token of the span after its first token;
\* the start of the doc when the span has none
TitleStartIndex(doc, span) ==
    LET content == { i \in (span.start + 1)..(span.end - 1) :
                        doc[i].pos \in {"VERB", "NOUN"} }
    IN  IF content = {} THEN 1
        ELSE CHOOSE i \in content : \A j \in content : i <= j

\* str.strip(): leading and trailing whitespace is removed, nothing else
RECURSIVE Strip(_)
Strip(toks) ==
    IF toks = <<>> THEN <<>>
    ELSE IF toks[1].is_space THEN Strip(Tail(toks))
    ELSE IF toks[Len(toks)].is_space THEN Strip(SubSeq(toks, 1, Len(toks) - 1))
    ELSE toks

\* doc[title_start_index:].text.strip(), as the texts of its tokens
TaskTitle(doc, span) ==
    LET raw == Strip(SubSeq(doc, TitleStartIndex(doc, span), Len(doc)))
    IN  [i \in DOMAIN raw |-> raw[i].lower]

\* the task the router builds; every optional field is None
NewTaskAction(title, uuid) ==
    Action(TRUE, "createTask", Absent, TRUE, uuid, title, FALSE)

\* run_intent_router(user_message): doc is the parse of the message, nlp
\* tells whether the language model was loaded, uuid is what uuid4() gives
run_intent_router(doc, nlp, uuid) ==
    IF ~nlp THEN Fallback
    ELSE LET matches == filter_spans(MatcherSpans(doc))
         IN  IF matches = {} THEN Fallback
             ELSE LET best_match == FirstSpan(matches)
                      rule_id    == best_match.label
                      task_title == TaskTitle(doc, best_match)
                  IN  IF rule_id = "CREATE_TASK"
                      THEN IF HasComplexEntity(doc) THEN Fallback
                           ELSE IF HasPriorityWord(doc) THEN Fallback
                           ELSE RouterResult("CREATE_TASK",
                                    ActionList(<< NewTaskAction(task_title, uuid) >>),
                                    Reply("added", task_title))
                      ELSE IF rule_id \in {"DELETE_TASK", "TOGGLE_TASK"}
                           THEN RouterResult(rule_id, NoActions, NoReply)
                           ELSE Fallback

\* ---------------------------------------------------------- the request
\* the tasks and time blocks the caller sends: n tasks, m time blocks
TitleOf(i) == << "title", ToString(i) >>
TaskList(n)  == [i \in 1..n |-> [id |-> TaskId(i), title |-> TitleOf(i)]]
BlockList(m) == [j \in 1..m |-> [id |-> BlockId(j), task_id |-> TaskId(j)]]

\* "get rid of the gym task" and "mark the meeting as done", as parsed
GetRidOfTheGymTask   == << W_get, W_rid, W_of, W_the, W_gym, W_task >>
MarkTheMeetingAsDone == << W_mark, W_the, W_meeting, W_as, W_done >>

\* the utterances sent through the whole pipeline, as the parser reads them
Utterances ==
    { << W_add, W_milk >>,
      << W_add, W_a, W_task, W_to, W_milk >>,
      << W_add, W_milk, W_bang, W_space >>,
      << W_add, W_milk, W_bang, W_delete, W_it >>,
      << W_add, W_milk, W_tomorrow >>,
      << W_add, W_milk, W_urgent >>,
      << W_add, W_it >>,
      << W_milk >>,
      << W_delete, W_milk >>,
      << W_delete, W_add, W_milk >>,
      << W_delete, W_milk, W_tomorrow >>,
      << W_mark, W_milk >>,
      << W_mark, W_address >>,
      GetRidOfTheGymTask,
      MarkTheMeetingAsDone,
      << W_delete, W_bang, W_add, W_milk >> }

AppState(n, m, doc) ==
    [tasks |-> TaskList(n), timeBlocks |-> BlockList(m),
     chatHistory |-> << [text |-> doc, sender |-> "user"] >>]

\* app_state.chatHistory[-1].text
LatestText(as) == as.chatHistory[Len(as.chatHistory)].text

\* "add" in user_query.lower() or "create" in user_query.lower(): the words
\* of the vocabulary whose text holds one of the two character sequences
CreationSubstringWords == {"add", "address", "create"}
HasCreationSubstring_whole_words(doc) ==
    \E i \in DOMAIN doc : doc[i].lower \in {"add", "create"}
HasCreationSubstring(doc) ==
    \E i \in DOMAIN doc : doc[i].lower \in CreationSubstringWords

\* ------------------------------------------------------ similarity search
TaskTopK  == 5
BlockTopK == 3

\* np.argsort(similarities): indices by ascending similarity, ties by index
RECURSIVE ArgsortRec(_, _)
ArgsortRec(idx, sims) ==
    IF idx = {} THEN <<>>
    ELSE LET lo == CHOOSE i \in idx : \A j \in idx :
                       sims[i] < sims[j] \/ (sims[i] = sims[j] /\ i <= j)
         IN  <<lo>> \o ArgsortRec(idx \ {lo}, sims)

Argsort(sims) == ArgsortRec(DOMAIN sims, sims)

Reverse(s) == [i \in 1..Len(s) |-> s[Len(s) + 1 - i]]

\* np.argsort(similarities)[-top_k:] without the reversal
TopKIndices_ascending(sims, top_k) ==
    LET asc == Argsort(sims)
        n   == Len(asc)
    IN  SubSeq(asc, IF n > top_k THEN n - top_k + 1 ELSE 1, n)

\* np.argsort(similarities)[-top_k:][::-1]
TopKIndices(sims, top_k) ==
    LET asc == Argsort(sims)
        n   == Len(asc)
    IN  Reverse(SubSeq(asc, IF n > top_k THEN n - top_k + 1 ELSE 1, n))

\* [items[i] for i in top_k_indices]
SelectItems(items, sims, top_k) ==
    LET ix == TopKIndices(sims, top_k) IN [r \in 1..Len(ix) |-> items[ix[r]]]

\* the similarity vectors the embedding engine can produce for n items
SimVectors(n) == [1..n -> 1..n]

\* find_similar_tasks makes embedding calls unless the task list is empty
TaskSearchEmbeds_always(tasks) == TRUE
TaskSearchEmbeds(tasks) == tasks # <<>>
\* find_similar_time_blocks makes them unless either list is empty
BlockSearchEmbeds(blocks, tasks) == blocks # <<>> /\ tasks # <<>>

find_similar_tasks(tasks, sims, top_k) ==
    IF tasks = <<>> THEN <<>> ELSE SelectItems(tasks, sims, top_k)

find_similar_time_blocks(blocks, tasks, sims, top_k) ==
    IF blocks = <<>> \/ tasks = <<>> THEN <<>>
    ELSE SelectItems(blocks, sims, top_k)

\* ------------------------------------------------- reasoning-engine output
\* an identifier the reasoning engine made up for a task it creates
LlmId == <<"llm", 0>>

\* response.content of the Focused Resolver's call: text that is not JSON,
\* JSON that is not an object (a list, a string, null), or an object with
\* or without an item_id field
ResolverContent(j, h, id) == [json |-> j, has_item_id |-> h, item_id |-> id]

ResolverContents(as) ==
    { ResolverContent("invalid", FALSE, Absent),
      ResolverContent("nonobject", FALSE, Absent),
      ResolverContent("object", FALSE, Absent) }
    \cup { ResolverContent("object", TRUE, id) :
             id \in {NullId, EmptyId, GhostId}
                    \cup { as.tasks[i].id : i \in DOMAIN as.tasks }
                    \cup { as.timeBlocks[j].id : j \in DOMAIN as.timeBlocks } }

\* Python truth value of result.get("item_id")
Truthy(id) == id \notin {NullId, EmptyId, Absent}

\* the entries the General Agent's call may put in its actions list
AgentEntries ==
    { Action(TRUE, "createTask", Absent, TRUE, LlmId, <<"milk">>, FALSE),
      Action(TRUE, "createTask", Absent, TRUE, Absent, <<"milk">>, FALSE),
      Action(TRUE, "createTask", Absent, TRUE, LlmId, NoTitle, FALSE),
      Action(TRUE, "deleteTask", TaskId(1), FALSE, Absent, NoTitle, FALSE),
      Action(TRUE, "deleteTask", GhostId, FALSE, Absent, NoTitle, FALSE),
      Action(TRUE, "updateTask", TaskId(1), FALSE, Absent, NoTitle, FALSE),
      Action(TRUE, "deleteTimeBlock", BlockId(1), FALSE, Absent, NoTitle, FALSE),
      Action(FALSE, "", Absent, FALSE, Absent, NoTitle, FALSE) }

EntryLists == UNION { [1..k -> AgentEntries] : k \in 0..MaxActions }

\* response.content of the General Agent's call: json as above; an object
\* has or lacks "actions" (a list, null or another value) and
\* "response_message" (a string or another value)
AgentContent(j, ha, acts, hm, msg) ==
    [json |-> j, has_actions |-> ha, actions |-> acts,
     has_message |-> hm, message |-> msg]

LlmMessage    == Reply("llm", <<>>)
NonStrMessage == Reply("nonstr", <<>>)

AgentContents ==
    { AgentContent("invalid", FALSE, NoActions, FALSE, NoReply),
      AgentContent("nonobject", FALSE, NoActions, FALSE, NoReply),
      AgentContent("object", FALSE, NoActions, FALSE, NoReply),
      AgentContent("object", TRUE, NoActions, TRUE, LlmMessage),
      AgentContent("object", TRUE, NotAList, TRUE, LlmMessage),
      AgentContent("object", TRUE, ActionList(<<>>), TRUE, NonStrMessage) }
    \cup { AgentContent("object", TRUE, ActionList(l), TRUE, LlmMessage) :
             l \in EntryLists }

\* ------------------------------------------------------------------ state
VARIABLES
    nlp_loaded,             \* intent_router.nlp is not None
    app_state,              \* GraphState.app_state, the caller's request
    messages,               \* GraphState.messages
    candidate_tasks,        \* GraphState.candidate_tasks (None or a list)
    candidate_time_blocks,  \* GraphState.candidate_time_blocks
    chat_response,          \* GraphState.chat_response
    actions,                \* GraphState.actions
    detected_intent,        \* GraphState.detected_intent
    router_result,          \* what run_intent_router returned
    pc,                     \* the node to run next, or how run_graph ended
    visited,                \* the nodes that have run, in order
    llm_calls,              \* reasoning-engine calls made for the request
    embed_calls,            \* embedding searches made for the request
    llm_content,            \* response.content of the reasoning call made
    error,                  \* the exception that left run_graph, if any
    response,               \* the ApiResponse run_graph returned, if any
    router_log,             \* what run_intent_router returned, call by call
    parked,                 \* the request whose stages are not running now
    search                  \* a direct similarity search: arguments, reply

vars == << nlp_loaded, app_state, messages, candidate_tasks,
           candidate_time_blocks, chat_response, actions, detected_intent,
           router_result, pc, visited, llm_calls, embed_calls, llm_content,
           error, response, router_log, parked, search >>

CandNone     == [kind |-> "none", items |-> <<>>]
CandList(s)  == [kind |-> "list", items |-> s]

NoResponse   == [returned |-> FALSE, chat_response |-> EmptyReply,
                 actions |-> ActionList(<<>>)]
NoRouterCall == RouterResult("", NoActions, NoReply)
NoContent    == [json |-> "none"]
NoRequest    == [pc |-> "none"]
NoSearch     == [kind |-> "none"]

\* initial_state of run_graph, for a request of n tasks, m time blocks and
\* the utterance doc
InitialState(n, m, doc) ==
    /\ app_state = AppState(n, m, doc)
    /\ messages = <<>>
    /\ candidate_tasks = CandNone
    /\ candidate_time_blocks = CandNone
    /\ chat_response = EmptyReply
    /\ actions = ActionList(<<>>)
    /\ detected_intent = ""
    /\ router_result = NoRouterCall
    /\ visited = <<>>
    /\ llm_calls = 0
    /\ embed_calls = 0
    /\ llm_content = NoContent
    /\ error = "none"
    /\ response = NoResponse
    /\ router_log = <<>>
    /\ search = NoSearch

Init ==
    /\ nlp_loaded \in BOOLEAN
    /\ parked = NoRequest
    /\ \E n \in 0..MaxTasks, m \in 0..MaxBlocks, doc \in Utterances :
         InitialState(n, m, doc)
    /\ pc = "intent_router"

\* ---------------------------------------------------------------- routing
ResolverIntents == {"DELETE_TASK", "TOGGLE_TASK", "DELETE_TIME_BLOCK"}

\* route_after_intent without the full shortcut: CREATE_TASK is sent on to
\* the General Agent
route_after_intent_no_shortcut(intent) ==
    IF intent \in ResolverIntents THEN "find_candidate_tasks"
    ELSE "prepare_initial_messages"

\* route_after_intent failing closed: an intent no resolver handles ends
\* the request at once
route_after_intent_fail_closed(intent) ==
    IF intent = "CREATE_TASK" THEN "final_response"
    ELSE IF intent \in ResolverIntents THEN "find_candidate_tasks"
    ELSE "final_response"

\* route_after_intent sending the Focused Resolver's intents through prompt
\* preparation as well
route_after_intent_always_prepare(intent) ==
    IF intent = "CREATE_TASK" THEN "final_response"
    ELSE "prepare_initial_messages"

\* route_after_intent sending CREATE_TASK through candidate retrieval
route_after_intent_create_retrieves(intent) ==
    IF intent = "CREATE_TASK" \/ intent \in ResolverIntents
    THEN "find_candidate_tasks"
    ELSE "prepare_initial_messages"

route_after_intent(intent) ==
    IF intent = "CREATE_TASK" THEN "final_response"
    ELSE IF intent \in ResolverIntents THEN "find_candidate_tasks"
    ELSE "prepare_initial_messages"

\* route_after_find_candidates without the Focused Resolver
route_after_find_candidates_always_agent(intent) == "agent"

route_after_find_candidates(intent) ==
    IF intent \in ResolverIntents THEN "specialized_agent" ELSE "agent"

\* uuid.uuid4() of the CREATE_TASK branch: every call of it in the process
\* gives a value no earlier call gave
NextUuid_fixed(log) == Uuid(1)
NextUuid(log) ==
    Uuid(Cardinality({ k \in 1..Len(log) : log[k].intent = "CREATE_TASK" }) + 1)

\* an exception no handler of the node catches leaves the node, the graph
\* and run_graph
Raise_swallowed(e) ==
    /\ pc' = "final_response"
    /\ error' = e
Raise(e) ==
    /\ pc' = "raised"
    /\ error' = e

\* ------------------------------------------------------------------ nodes
intent_router_node ==
    /\ pc = "intent_router"
    /\ LET user_query == LatestText(app_state)
           result     == run_intent_router(user_query, nlp_loaded,
                                           NextUuid(router_log))
       IN  /\ router_result' = result
           /\ router_log' = Append(router_log, result)
           /\ detected_intent' = result.intent
           /\ IF result.intent = "CREATE_TASK"
              THEN /\ chat_response' = result.response
                   /\ actions' = result.payload
              ELSE UNCHANGED << chat_response, actions >>
           /\ pc' = route_after_intent(result.intent)
    /\ visited' = Append(visited, "intent_router")
    /\ UNCHANGED << parked, search >>
    /\ UNCHANGED << nlp_loaded, app_state, messages, candidate_tasks,
                    candidate_time_blocks, llm_calls, embed_calls,
                    llm_content, error, response >>

\* prepare_initial_messages also appending to the caller's chat history
prepare_initial_messages_appends_history ==
    /\ pc = "prepare_initial_messages"
    /\ UNCHANGED << router_log, parked, search >>
    /\ messages' = << [role |-> "human", text |-> LatestText(app_state)] >>
    /\ app_state' = [app_state EXCEPT !.chatHistory =
                       Append(@, [text |-> LatestText(app_state),
                                  sender |-> "bot"])]
    /\ pc' = "find_candidate_tasks"
    /\ visited' = Append(visited, "prepare_initial_messages")
    /\ UNCHANGED << nlp_loaded, candidate_tasks,
                    candidate_time_blocks, chat_response, actions,
                    detected_intent, router_result, llm_calls, embed_calls,
                    llm_content, error, response >>

prepare_initial_messages ==
    /\ pc = "prepare_initial_messages"
    /\ UNCHANGED << router_log, parked, search >>
    /\ messages' = << [role |-> "human", text |-> LatestText(app_state)] >>
    /\ pc' = "find_candidate_tasks"
    /\ visited' = Append(visited, "prepare_initial_messages")
    /\ UNCHANGED << nlp_loaded, app_state, candidate_tasks,
                    candidate_time_blocks, chat_response, actions,
                    detected_intent, router_result, llm_calls, embed_calls,
                    llm_content, error, response >>

\* does the node search the tasks / the time blocks with the embedding engine
SearchesTasks(as) ==
    ~HasCreationSubstring(LatestText(as)) /\ TaskSearchEmbeds(as.tasks)
SearchesBlocks(as) == BlockSearchEmbeds(as.timeBlocks, as.tasks)

find_candidate_tasks_node ==
    /\ pc = "find_candidate_tasks"
    /\ UNCHANGED << router_log, parked, search >>
    /\ visited' = Append(visited, "find_candidate_tasks")
    /\ LET user_query      == LatestText(app_state)
           all_tasks       == app_state.tasks
           all_time_blocks == app_state.timeBlocks
           searches == (IF SearchesTasks(app_state) THEN 1 ELSE 0)
                       + (IF SearchesBlocks(app_state) THEN 1 ELSE 0)
       IN  \/ /\ \E ts \in SimVectors(Len(all_tasks)),
                    bs \in SimVectors(Len(all_time_blocks)) :
                    /\ candidate_tasks' =
                         IF ~HasCreationSubstring(user_query)
                         THEN CandList(find_similar_tasks(all_tasks, ts, TaskTopK))
                         ELSE CandList(<<>>)
                    /\ candidate_time_blocks' =
                         CandList(find_similar_time_blocks(
                                    all_time_blocks, all_tasks, bs, BlockTopK))
              /\ embed_calls' = embed_calls + searches
              /\ pc' = route_after_find_candidates(detected_intent)
              /\ UNCHANGED error
           \/ \* the embedding service is unavailable
              /\ searches > 0
              /\ embed_calls' = embed_calls + 1
              /\ Raise("UpstreamError")
              /\ UNCHANGED << candidate_tasks, candidate_time_blocks >>
    /\ UNCHANGED << nlp_loaded, app_state, messages, chat_response, actions,
                    detected_intent, router_result, llm_calls, llm_content,
                    response >>

agent_node ==
    /\ pc = "agent"
    /\ UNCHANGED << router_log, parked, search >>
    /\ visited' = Append(visited, "agent")
    /\ llm_calls' = llm_calls + 1
    /\ \/ \E c \in AgentContents :
            /\ llm_content' = c
            /\ CASE c.json = "invalid" ->
                   /\ chat_response' = Reply("agent_error", <<>>)
                   /\ actions' = ActionList(<<>>)
                   /\ pc' = "final_response"
                   /\ UNCHANGED error
              [] c.json = "nonobject" ->
                   /\ Raise("AttributeError")
                   /\ UNCHANGED << chat_response, actions >>
              [] OTHER ->
                   /\ chat_response' = IF c.has_message THEN c.message
                                       ELSE Reply("processed", <<>>)
                   /\ actions' = IF c.has_actions THEN c.actions
                                 ELSE ActionList(<<>>)
                   /\ pc' = "final_response"
                   /\ UNCHANGED error
       \/ \* the reasoning service is unavailable
          /\ Raise("UpstreamError")
          /\ UNCHANGED << chat_response, actions, llm_content >>
    /\ UNCHANGED << nlp_loaded, app_state, messages, candidate_tasks,
                    candidate_time_blocks, detected_intent, router_result,
                    embed_calls, response >>

\* final_response_node resetting the intent tag
final_response_node_clears_intent ==
    /\ pc = "final_response"
    /\ UNCHANGED << router_log, parked, search >>
    /\ pc' = "END"
    /\ visited' = Append(visited, "final_response")
    /\ detected_intent' = ""
    /\ UNCHANGED << nlp_loaded, app_state, messages, candidate_tasks,
                    candidate_time_blocks, chat_response, actions,
                    router_result, llm_calls, embed_calls,
                    llm_content, error, response >>

\* final_response_node dropping the action list
final_response_node_drops_actions ==
    /\ pc = "final_response"
    /\ UNCHANGED << router_log, parked, search >>
    /\ pc' = "END"
    /\ visited' = Append(visited, "final_response")
    /\ actions' = ActionList(<<>>)
    /\ UNCHANGED << nlp_loaded, app_state, messages, candidate_tasks,
                    candidate_time_blocks, chat_response,
                    detected_intent, router_result, llm_calls, embed_calls,
                    llm_content, error, response >>

final_response_node ==
    /\ pc = "final_response"
    /\ UNCHANGED << router_log, parked, search >>
    /\ pc' = "END"
    /\ visited' = Append(visited, "final_response")
    /\ UNCHANGED << nlp_loaded, app_state, messages, candidate_tasks,
                    candidate_time_blocks, chat_response, actions,
                    detected_intent, router_result, llm_calls, embed_calls,
                    llm_content, error, response >>

\* next((x.title for x in items if x.id == id), default)
TitleOrDefault(items, id, default) ==
    LET hits == { i \in DOMAIN items : items[i].id = id }
    IN  IF hits = {} THEN default
        ELSE items[CHOOSE i \in hits : \A j \in hits : i <= j].title

\* title of the task a candidate time block with this id belongs to
BlockTaskTitle(blocks, tasks, id) ==
    LET hits == { j \in DOMAIN blocks : blocks[j].id = id }
    IN  IF hits = {} THEN << "the event" >>
        ELSE LET block == blocks[CHOOSE j \in hits : \A k \in hits : j <= k]
             IN  TitleOrDefault(tasks, block.task_id, << "the event" >>)

\* the resolver reading the task candidates for every intent
CandidateItems_tasks_only(intent, ct, ctb) ==
    IF intent \in ResolverIntents THEN ct.items ELSE <<>>

\* the candidate list the Focused Resolver reads for an intent
CandidateItems(intent, ct, ctb) ==
    IF intent \in {"DELETE_TASK", "TOGGLE_TASK"} THEN ct.items
    ELSE IF intent = "DELETE_TIME_BLOCK" THEN ctb.items
    ELSE <<>>

IdAction(ty, id) == Action(TRUE, ty, id, FALSE, Absent, NoTitle, FALSE)

\* the reply and the action the Focused Resolver writes for a selected id
ResolverReply(intent, item_id, ct, ctb, tasks) ==
    IF intent = "DELETE_TASK"
    THEN Reply("deleted", TitleOrDefault(ct.items, item_id, << "the task" >>))
    ELSE IF intent = "TOGGLE_TASK"
    THEN Reply("toggled", TitleOrDefault(ct.items, item_id, << "the task" >>))
    ELSE Reply("removed", BlockTaskTitle(ctb.items, tasks, item_id))

ResolverActionType_delete_only(intent) == "deleteTask"
ResolverActionType(intent) ==
    IF intent = "DELETE_TASK" THEN "deleteTask"
    ELSE IF intent = "TOGGLE_TASK" THEN "toggleTaskCompletion"
    ELSE "deleteTimeBlock"

specialized_agent_node ==
    /\ pc = "specialized_agent"
    /\ UNCHANGED << router_log, parked, search >>
    /\ visited' = Append(visited, "specialized_agent")
    /\ LET intent == detected_intent
           items  == CandidateItems(intent, candidate_tasks, candidate_time_blocks)
       IN  IF intent \notin ResolverIntents \/ items = <<>>
           THEN \* get_failure_response()
                /\ chat_response' = Reply("not_found_item", <<>>)
                /\ actions' = ActionList(<<>>)
                /\ pc' = "final_response"
                /\ UNCHANGED << llm_calls, llm_content, error >>
           ELSE /\ llm_calls' = llm_calls + 1
                /\ \/ \E c \in ResolverContents(app_state) :
                        /\ llm_content' = c
                        /\ CASE c.json = "invalid" ->
                               /\ chat_response' = Reply("trouble", <<>>)
                               /\ actions' = ActionList(<<>>)
                               /\ pc' = "final_response"
                               /\ UNCHANGED error
                          [] c.json = "nonobject" ->
                               /\ Raise("AttributeError")
                               /\ UNCHANGED << chat_response, actions >>
                          [] OTHER ->
                               LET item_id == IF c.has_item_id THEN c.item_id
                                              ELSE NullId
                               IN  /\ IF Truthy(item_id)
                                      THEN /\ chat_response' =
                                                ResolverReply(intent, item_id,
                                                    candidate_tasks,
                                                    candidate_time_blocks,
                                                    app_state.tasks)
                                           /\ actions' = ActionList(
                                                << IdAction(ResolverActionType(intent),
                                                            item_id) >>)
                                      ELSE /\ chat_response' =
                                                Reply("not_found_task", <<>>)
                                           /\ actions' = ActionList(<<>>)
                                   /\ pc' = "final_response"
                                   /\ UNCHANGED error
                   \/ \* the reasoning service is unavailable
                      /\ Raise("UpstreamError")
                      /\ UNCHANGED << chat_response, actions, llm_content >>
    /\ UNCHANGED << nlp_loaded, app_state, messages, candidate_tasks,
                    candidate_time_blocks, detected_intent, router_result,
                    embed_calls, response >>

\* ApiResponse(chat_response: str, actions: List[Dict[str, Any]]) accepts
\* the final state's values
ValidApiResponse(cr, acts) ==
    /\ cr.kind \notin {"none", "nonstr"}
    /\ acts.kind = "list"
    /\ \A i \in DOMAIN acts.items : acts.items[i].dict

\* run_graph after app.invoke: build the ApiResponse and return it
return_response ==
    /\ pc = "END"
    /\ UNCHANGED << router_log, parked, search >>
    /\ IF ValidApiResponse(chat_response, actions)
       THEN /\ response' = [returned |-> TRUE, chat_response |-> chat_response,
                            actions |-> actions]
            /\ pc' = "returned"
            /\ UNCHANGED error
       ELSE /\ Raise("ValidationError")
            /\ UNCHANGED response
    /\ UNCHANGED << nlp_loaded, app_state, messages, candidate_tasks,
                    candidate_time_blocks, chat_response, actions,
                    detected_intent, router_result, visited, llm_calls,
                    embed_calls, llm_content >>

Next ==
    \/ intent_router_node
    \/ prepare_initial_messages
    \/ find_candidate_tasks_node
    \/ agent_node
    \/ specialized_agent_node
    \/ final_response_node
    \/ return_response

Spec == Init /\ [][Next]_vars

\* ------------------------------------------- run_intent_router on its own
\* Up to MaxRouterCalls calls of run_intent_router, one after the other in
\* one process, for every parse of at most MaxTokens tokens.
InitRouter ==
    /\ nlp_loaded \in BOOLEAN
    /\ parked = NoRequest
    /\ \E doc \in DocsOver(Vocab) : InitialState(0, 0, doc)
    /\ pc = "router_call"

call_intent_router ==
    /\ pc \in {"router_call", "router_returned"}
    /\ Len(router_log) < MaxRouterCalls
    /\ LET result == run_intent_router(LatestText(app_state), nlp_loaded,
                                       NextUuid(router_log))
       IN  /\ router_result' = result
           /\ router_log' = Append(router_log, result)
    /\ pc' = "router_returned"
    /\ UNCHANGED << parked, search >>
    /\ UNCHANGED << nlp_loaded, app_state, messages, candidate_tasks,
                    candidate_time_blocks, chat_response, actions,
                    detected_intent, visited, llm_calls, embed_calls,
                    llm_content, error, response >>

NextRouter == call_intent_router

SpecRouter == InitRouter /\ [][NextRouter]_vars

\* --------------------------------------- specialized_agent_node on its own
\* The node applied to any graph state: every intent tag, candidate lists
\* absent, empty or holding items of the request.
CandidateValues(items) ==
    {CandNone} \cup { CandList(SubSeq(items, 1, k)) : k \in 0..Len(items) }
               \cup { CandList(Reverse(items)) }

InitNode ==
    /\ nlp_loaded = TRUE
    /\ \E n \in 0..MaxTasks, m \in 0..MaxBlocks :
         /\ app_state = AppState(n, m, << W_delete, W_milk >>)
         /\ candidate_tasks \in CandidateValues(TaskList(n))
         /\ candidate_time_blocks \in CandidateValues(BlockList(m))
    /\ detected_intent \in
         ResolverIntents \cup {"CREATE_TASK", "AGENT_FALLBACK", ""}
    /\ messages = <<>>
    /\ chat_response = EmptyReply
    /\ actions = ActionList(<<>>)
    /\ router_result = NoRouterCall
    /\ visited = <<>>
    /\ llm_calls = 0
    /\ embed_calls = 0
    /\ llm_content = NoContent
    /\ error = "none"
    /\ response = NoResponse
    /\ router_log = <<>>
    /\ parked = NoRequest
    /\ search = NoSearch
    /\ pc = "specialized_agent"

NextNode == specialized_agent_node

SpecNode == InitNode /\ [][NextNode]_vars

\* ================================================================= claims
\* the node that ran last
LastNode == IF visited = <<>> THEN "" ELSE visited[Len(visited)]
NodeRan(node) == \E i \in DOMAIN visited : visited[i] = node

\* the rule of the match run_intent_router selects (matches[0]), "" if none
SelectedRule(doc) ==
    LET chosen == filter_spans(MatcherSpans(doc))
    IN  IF chosen = {} THEN "" ELSE FirstSpan(chosen).label

\* some span of the utterance matches the create pattern
MatchesCreatePattern(doc) ==
    \E sp \in MatcherSpans(doc) : sp.label = "CREATE_TASK"

\* the utterance holds a DATE / TIME / CARDINAL / ORDINAL entity or one of
\* the words priority, deadline, urgent
ComplexUtterance(doc) ==
    \E i \in DOMAIN doc :
        \/ doc[i].ent \in {"DATE", "TIME", "CARDINAL", "ORDINAL"}
        \/ doc[i].lower \in {"priority", "deadline", "urgent"}

\* identifiers of the tasks and time blocks of the request
RequestIds ==
    { app_state.tasks[i].id : i \in DOMAIN app_state.tasks }
    \cup { app_state.timeBlocks[j].id : j \in DOMAIN app_state.timeBlocks }

\* identifiers of the candidates the Focused Resolver was given
GivenCandidateIds ==
    IF detected_intent = "DELETE_TIME_BLOCK"
    THEN { candidate_time_blocks.items[j].id : j \in DOMAIN candidate_time_blocks.items }
    ELSE { candidate_tasks.items[i].id : i \in DOMAIN candidate_tasks.items }

\* C1: an action the Focused Resolver emits (deleteTask,
\* toggleTaskCompletion, deleteTimeBlock) carries the id of a member of the
\* candidate set the resolver was given, whatever the reasoning engine replied.
C1_ResolverIdFromCandidates ==
    (LastNode = "specialized_agent" /\ actions.kind = "list")
    => \A i \in DOMAIN actions.items :
         actions.items[i].action_type
            \in {"deleteTask", "toggleTaskCompletion", "deleteTimeBlock"}
         => actions.items[i].id \in GivenCandidateIds

\* C2: in every response run_graph returns, each updateTask, deleteTask,
\* toggleTaskCompletion, updateTimeBlock and deleteTimeBlock action carries
\* the id of a task or time block of the request.
C2_ResponseIdsExist ==
    pc = "returned"
    => \A i \in DOMAIN response.actions.items :
         response.actions.items[i].action_type
            \in {"updateTask", "deleteTask", "toggleTaskCompletion",
                 "updateTimeBlock", "deleteTimeBlock"}
         => response.actions.items[i].id \in RequestIds

\* the response holds exactly one action, a createTask with a non-empty title
OneCreateTask(r) ==
    /\ r.returned
    /\ r.actions.kind = "list"
    /\ Len(r.actions.items) = 1
    /\ r.actions.items[1].action_type = "createTask"
    /\ r.actions.items[1].has_task
    /\ r.actions.items[1].title # NoTitle

NoCandidatesForIntent ==
    \/ detected_intent \in {"DELETE_TASK", "TOGGLE_TASK"}
         /\ candidate_tasks.items = <<>>
    \/ detected_intent = "DELETE_TIME_BLOCK"
         /\ candidate_time_blocks.items = <<>>

\* C5: with an empty or absent candidate list for the intent, the Focused
\* Resolver ends with zero actions and the could-not-find reply and makes
\* no reasoning-engine call.
C5_EmptyCandidatesNoCall ==
    (visited = << "specialized_agent" >> /\ NoCandidatesForIntent)
    => /\ pc = "final_response"
       /\ actions = ActionList(<<>>)
       /\ chat_response = Reply("not_found_item", <<>>)
       /\ llm_calls = 0
       /\ llm_content = NoContent

C5_Witness ==
    /\ visited = << "specialized_agent" >>
    /\ detected_intent = "DELETE_TIME_BLOCK"
    /\ candidate_time_blocks = CandNone
    /\ candidate_tasks.items # <<>>
    /\ chat_response = Reply("not_found_item", <<>>)
    /\ llm_calls = 0

\* the Focused Resolver's call returned something that selects no identifier
NotASelection(c) ==
    \/ c.json \in {"invalid", "nonobject"}
    \/ c.json = "object" /\ (~c.has_item_id \/ c.item_id = NullId)

\* C6: when the reasoning engine's output is not a valid identifier
\* selection, the Focused Resolver ends with zero actions and a
\* clarification reply, and no error leaves the stage.
C6_ResolverDegrades ==
    (LastNode = "specialized_agent" /\ llm_content.json # "none"
        /\ NotASelection(llm_content))
    => /\ pc = "final_response"
       /\ error = "none"
       /\ actions = ActionList(<<>>)
       /\ chat_response.kind \in {"trouble", "not_found_task"}

\* the General Agent's call returned something that does not decode against
\* the expected schema
AgentDecodeFailure(c) ==
    \/ c.json \in {"invalid", "nonobject"}
    \/ c.json = "object" /\ c.has_actions /\ c.actions.kind # "list"

\* C7: when the reasoning engine's output fails to decode, the General Agent
\* ends with the generic error reply and an empty action list, and
\* run_graph returns a response instead of raising.
C7_AgentDegrades ==
    (NodeRan("agent") /\ llm_content.json # "none"
        /\ AgentDecodeFailure(llm_content))
    => /\ pc # "raised"
       /\ chat_response = Reply("agent_error", <<>>)
       /\ actions = ActionList(<<>>)

\* an entry carries the keys its tag requires
WellFormed(a) ==
    /\ a.dict
    /\ a.action_type = "createTask" => (a.has_task /\ a.title # NoTitle)
    /\ a.action_type \in {"deleteTask", "toggleTaskCompletion", "deleteTimeBlock"}
         => a.id # Absent
    /\ a.action_type = "updateTask" => (a.id # Absent /\ a.has_updated)

\* the General Agent's call returned an object with a string message and a
\* list of entries
AgentSentList(c) ==
    /\ c.json = "object"
    /\ c.has_actions /\ c.actions.kind = "list"
    /\ c.has_message => c.message.kind = "llm"

\* C8: the entries of the General Agent's output that lack a required key
\* are dropped and the well-formed ones are returned in their order; the
\* response does not fail and passes no malformed entry to the caller.
C8_MalformedEntriesDropped ==
    (NodeRan("agent") /\ llm_content.json # "none"
        /\ AgentSentList(llm_content) /\ pc \in {"returned", "raised"})
    => /\ pc = "returned"
       /\ response.actions.items = SelectSeq(llm_content.actions.items, WellFormed)

\* C9: every createTask action of a response produced through the General
\* Agent carries a task id.
C9_CreateTaskHasId ==
    (pc = "returned" /\ NodeRan("agent"))
    => \A i \in DOMAIN response.actions.items :
         (response.actions.items[i].action_type = "createTask"
            /\ response.actions.items[i].has_task)
         => response.actions.items[i].task_id # Absent

GeneralPath ==
    << "intent_router", "prepare_initial_messages", "find_candidate_tasks",
       "agent", "final_response" >>

\* C10: when the language model failed to load, run_intent_router returns
\* AGENT_FALLBACK with no payload and no reply, the request runs prompt
\* preparation, candidate retrieval and the General Agent in that order,
\* and a returned response carries what the General Agent wrote.
C10_NoParserFailsOpen ==
    ~nlp_loaded
    => /\ router_result \in {NoRouterCall, Fallback}
       /\ visited # <<>> =>
            /\ router_result = Fallback
            /\ detected_intent = "AGENT_FALLBACK"
       /\ Len(visited) <= Len(GeneralPath)
       /\ visited = SubSeq(GeneralPath, 1, Len(visited))
       /\ pc = "returned" =>
            /\ visited = GeneralPath
            /\ llm_calls = 1
            /\ response.chat_response = chat_response
            /\ response.chat_response.kind \in {"llm", "processed", "agent_error"}

C10_Witness ==
    /\ ~nlp_loaded
    /\ pc = "returned"
    /\ LatestText(app_state) = << W_add, W_milk >>
    /\ visited = GeneralPath
    /\ response.actions.items # <<>>

\* ------------------------------------------------------ the chat endpoint
\* process_chat_message passes EndpointCallArgs positional arguments to
\* run_graph, whose signature has RunGraphParams parameters without default
EndpointCallArgs == 1
RunGraphParams   == 2

\* the states the endpoint can receive: any request, its chat history empty
\* or holding the user's message
ReceivedStates ==
    { AppState(n, m, doc) :
        n \in 0..MaxTasks, m \in 0..MaxBlocks, doc \in Utterances }
    \cup { [AppState(n, m, << >>) EXCEPT !.chatHistory = << >>] :
             n \in 0..MaxTasks, m \in 0..MaxBlocks }

InitEndpoint ==
    /\ nlp_loaded \in BOOLEAN
    /\ app_state \in ReceivedStates
    /\ messages = <<>>
    /\ candidate_tasks = CandNone
    /\ candidate_time_blocks = CandNone
    /\ chat_response = EmptyReply
    /\ actions = ActionList(<<>>)
    /\ detected_intent = ""
    /\ router_result = NoRouterCall
    /\ visited = <<>>
    /\ llm_calls = 0
    /\ embed_calls = 0
    /\ llm_content = NoContent
    /\ error = "none"
    /\ response = NoResponse
    /\ router_log = <<>>
    /\ parked = NoRequest
    /\ search = NoSearch
    /\ pc = "process_chat_message"

\* POST /api/chat: 400 on an empty chat history; otherwise the call of
\* run_graph, which raises TypeError before its first statement when the
\* arguments do not fill its parameters, and the handler's except clause
\* turns every exception into 500
process_chat_message ==
    /\ pc = "process_chat_message"
    /\ IF app_state.chatHistory = << >>
       THEN /\ pc' = "http_400"
            /\ UNCHANGED error
       ELSE IF EndpointCallArgs # RunGraphParams
            THEN /\ error' = "TypeError"
                 /\ pc' = "http_500"
            ELSE /\ pc' = "intent_router"
                 /\ UNCHANGED error
    /\ UNCHANGED << nlp_loaded, app_state, messages, candidate_tasks,
                    candidate_time_blocks, chat_response, actions,
                    detected_intent, router_result, visited, llm_calls,
                    embed_calls, llm_content, response, router_log, parked,
                    search >>

NextEndpoint == process_chat_message

SpecEndpoint == InitEndpoint /\ [][NextEndpoint]_vars

\* ---------------------------------------------------------------- C11
\* C11: when an embedding or reasoning call raises in any stage, the failing
\* stage writes no reply and no action list, run_graph ends by raising and
\* returns no response, and nothing runs afterwards that could turn the
\* failure into a reply.
C11_UpstreamFailurePropagates ==
    [][ /\ pc # "raised"
        /\ (error' = "UpstreamError") =>
             /\ pc' = "raised"
             /\ response' = NoResponse
             /\ chat_response' = chat_response
             /\ actions' = actions ]_vars

C11_Witness ==
    /\ pc = "raised"
    /\ error = "UpstreamError"
    /\ embed_calls > 0
    /\ llm_calls = 1
    /\ response = NoResponse

\* ---------------------------------------------------------------- C12
\* C12: a request with a non-empty chat history is answered by the chat
\* endpoint with the graph's response, never with an error status.
C12_EndpointReturnsGraphResponse ==
    (pc # "process_chat_message" /\ app_state.chatHistory # << >>) =>
        (pc \notin {"http_400", "http_500"} /\ error = "none")

\* ---------------------------------------------------------------- C13
\* the one createTask entry of a router result
CreatedTask(r) == r.payload.items[1]

ClaimedActionType(intent) ==
    CASE intent = "DELETE_TASK"       -> "deleteTask"
      [] intent = "TOGGLE_TASK"       -> "toggleTaskCompletion"
      [] intent = "DELETE_TIME_BLOCK" -> "deleteTimeBlock"

\* the reasoning engine answered the Focused Resolver with an identifier:
\* a JSON object whose item_id is neither null nor the empty string
ReturnedIdentifier ==
    /\ visited = << "specialized_agent" >>
    /\ llm_content.json = "object"
    /\ llm_content.has_item_id
    /\ llm_content.item_id \notin {NullId, EmptyId}

ReplyQuotes(reply, title) == reply.kind = "llm" \/ reply.arg = title

RECURSIVE Trim(_)
Trim(toks) ==
    IF toks = <<>> THEN <<>>
    ELSE IF toks[1].is_space \/ toks[1].is_punct THEN Trim(Tail(toks))
    ELSE IF toks[Len(toks)].is_space \/ toks[Len(toks)].is_punct
         THEN Trim(SubSeq(toks, 1, Len(toks) - 1))
    ELSE toks

\* the title the claim describes: from the first VERB / NOUN token after the
\* trigger verb of the selected match through the end of the utterance,
\* trimmed
ClaimedTitle(doc) ==
    LET trigger == FirstSpan(filter_spans(MatcherSpans(doc))).start
        content == { i \in (trigger + 1)..Len(doc) :
                        doc[i].pos \in {"VERB", "NOUN"} }
        first   == CHOOSE i \in content : \A j \in content : i <= j
        raw     == Trim(SubSeq(doc, first, Len(doc)))
    IN  [i \in DOMAIN raw |-> raw[i].lower]

OpensWithDeleteTrigger(doc) ==
    \/ /\ Len(doc) >= 2
       /\ doc[1].lower \in {"delete", "remove", "cancel"}
       /\ doc[1].pos = "VERB"
       /\ ~doc[2].is_punct
    \/ /\ Len(doc) >= 4
       /\ << doc[1].lower, doc[2].lower, doc[3].lower >> = << "get", "rid", "of" >>
       /\ doc[1].pos = "VERB"
       /\ ~doc[4].is_punct

\* C18: with the language model loaded, every utterance that opens with a
\* delete trigger followed by words and matches no create pattern is
\* classified DELETE_TASK, with no payload and no reply.
C18_DeleteTriggersClassified ==
    ( /\ nlp_loaded
      /\ router_result # NoRouterCall
      /\ OpensWithDeleteTrigger(LatestText(app_state))
      /\ ~MatchesCreatePattern(LatestText(app_state)) ) =>
        router_result = RouterResult("DELETE_TASK", NoActions, NoReply)

\* ------------------------------------------------ the graph after the router
\* The compiled graph from the conditional edge that leaves intent_router,
\* for every value detected_intent can hold there: the three tags the router
\* returns, DELETE_TIME_BLOCK, a tag no branch names and the initial "".
IntentValues ==
    {"CREATE_TASK", "DELETE_TASK", "TOGGLE_TASK", "DELETE_TIME_BLOCK",
     "AGENT_FALLBACK", "UPDATE_TASK", ""}

InitGraph ==
    /\ nlp_loaded = TRUE
    /\ \E n \in 0..MaxTasks, m \in 0..MaxBlocks,
          doc \in { << W_delete, W_milk >>, << W_delete, W_add, W_milk >> } :
         app_state = AppState(n, m, doc)
    /\ detected_intent \in IntentValues
    /\ IF detected_intent = "CREATE_TASK"
       THEN /\ chat_response = Reply("added", << "milk" >>)
            /\ actions = ActionList(<< NewTaskAction(<< "milk" >>, Uuid(1)) >>)
       ELSE /\ chat_response = EmptyReply
            /\ actions = ActionList(<<>>)
    /\ messages = <<>>
    /\ candidate_tasks = CandNone
    /\ candidate_time_blocks = CandNone
    /\ router_result = NoRouterCall
    /\ visited = << "intent_router" >>
    /\ llm_calls = 0
    /\ embed_calls = 0
    /\ llm_content = NoContent
    /\ error = "none"
    /\ response = NoResponse
    /\ router_log = <<>>
    /\ parked = NoRequest
    /\ search = NoSearch
    /\ pc = "route_after_intent"

\* the conditional edge of intent_router
conditional_edge_after_intent ==
    /\ pc = "route_after_intent"
    /\ pc' = route_after_intent(detected_intent)
    /\ UNCHANGED << nlp_loaded, app_state, messages, candidate_tasks,
                    candidate_time_blocks, chat_response, actions,
                    detected_intent, router_result, visited, llm_calls,
                    embed_calls, llm_content, error, response, router_log,
                    parked, search >>

NextGraph ==
    \/ conditional_edge_after_intent
    \/ prepare_initial_messages
    \/ find_candidate_tasks_node
    \/ agent_node
    \/ specialized_agent_node
    \/ final_response_node
    \/ return_response

SpecGraph == InitGraph /\ [][NextGraph]_vars

\* ---------------------------------------------------------------- C19
\* C19: once the edge after intent_router is taken, a CREATE_TASK request
\* runs final_response next and no other stage, with no embedding or
\* reasoning call; a DELETE_TASK, TOGGLE_TASK or DELETE_TIME_BLOCK request
\* runs candidate retrieval next and never prompt preparation; every other
\* intent value runs prompt preparation and then candidate retrieval.
C19_RoutingAfterIntent ==
    (visited # <<>> /\ visited[1] = "intent_router"
        /\ pc # "route_after_intent") =>
      CASE detected_intent = "CREATE_TASK" ->
             /\ visited \in { << "intent_router" >>,
                              << "intent_router", "final_response" >> }
             /\ Len(visited) = 1 => pc = "final_response"
             /\ llm_calls = 0
             /\ embed_calls = 0
             /\ messages = <<>>
        [] detected_intent \in
             {"DELETE_TASK", "TOGGLE_TASK", "DELETE_TIME_BLOCK"} ->
             /\ Len(visited) = 1 => pc = "find_candidate_tasks"
             /\ Len(visited) >= 2 => visited[2] = "find_candidate_tasks"
             /\ \A i \in DOMAIN visited :
                  visited[i] # "prepare_initial_messages"
             /\ messages = <<>>
        [] OTHER ->
             /\ Len(visited) = 1 => pc = "prepare_initial_messages"
             /\ Len(visited) >= 2 => visited[2] = "prepare_initial_messages"
             /\ Len(visited) = 2 => pc = "find_candidate_tasks"
             /\ Len(visited) >= 3 => visited[3] = "find_candidate_tasks"

C19_Witness ==
    /\ detected_intent = "DELETE_TIME_BLOCK"
    /\ visited = << "intent_router", "find_candidate_tasks",
                    "specialized_agent", "final_response" >>
    /\ pc = "returned"

\* ---------------------------------------------------------------- C20
\* the stage the claim names for the intent
ClaimedResolutionStage ==
    IF detected_intent \in {"DELETE_TASK", "TOGGLE_TASK", "DELETE_TIME_BLOCK"}
    THEN "specialized_agent" ELSE "agent"

\* C20: the stage that runs after candidate retrieval is the Focused Resolver
\* for DELETE_TASK, TOGGLE_TASK and DELETE_TIME_BLOCK and the General Agent
\* for every other intent; no request runs both or runs one twice; and when
\* the General Agent runs, prompt preparation ran before it and the message
\* list holds the user's message.
C20_OneResolutionStage ==
    /\ \A i \in DOMAIN visited :
         /\ visited[i] = "find_candidate_tasks" =>
              /\ i = Len(visited) => pc \in {ClaimedResolutionStage, "raised"}
              /\ i < Len(visited) => visited[i + 1] = ClaimedResolutionStage
         /\ visited[i] \in {"agent", "specialized_agent"} =>
              /\ visited[i] = ClaimedResolutionStage
              /\ i > 1
              /\ visited[i - 1] = "find_candidate_tasks"
              /\ \A j \in DOMAIN visited :
                   visited[j] \in {"agent", "specialized_agent"} => j = i
         /\ visited[i] = "agent" =>
              /\ \E j \in 1..(i - 1) : visited[j] = "prepare_initial_messages"
              /\ messages =
                   << [role |-> "human", text |-> LatestText(app_state)] >>
    /\ pc \in {"agent", "specialized_agent"} =>
         /\ pc = ClaimedResolutionStage
         /\ pc = "agent" => messages # <<>>

C20_Witness ==
    /\ detected_intent = "UPDATE_TASK"
    /\ visited = << "intent_router", "prepare_initial_messages",
                    "find_candidate_tasks", "agent", "final_response" >>
    /\ messages # <<>>
    /\ llm_calls = 1
    /\ pc = "returned"

\* ------------------------------------------- two requests in one process
\* Two calls of run_graph whose stages interleave.  The variables of the
\* graph state hold the request whose stage runs next; the other request's
\* graph state waits in parked.  nlp_loaded and the uuid generator belong to
\* the process and are shared.
Running ==
    [app_state |-> app_state, messages |-> messages,
     candidate_tasks |-> candidate_tasks,
     candidate_time_blocks |-> candidate_time_blocks,
     chat_response |-> chat_response, actions |-> actions,
     detected_intent |-> detected_intent, router_result |-> router_result,
     pc |-> pc, visited |-> visited, llm_calls |-> llm_calls,
     embed_calls |-> embed_calls, llm_content |-> llm_content,
     error |-> error, response |-> response]

\* initial_state of a run_graph call that has not run a stage yet
FreshRequest(as) ==
    [app_state |-> as, messages |-> <<>>, candidate_tasks |-> CandNone,
     candidate_time_blocks |-> CandNone, chat_response |-> EmptyReply,
     actions |-> ActionList(<<>>), detected_intent |-> "",
     router_result |-> NoRouterCall, pc |-> "intent_router",
     visited |-> <<>>, llm_calls |-> 0, embed_calls |-> 0,
     llm_content |-> NoContent, error |-> "none", response |-> NoResponse]

\* the utterances of the two requests: the first takes any of the three
\* paths, the second the shortcut or the Focused Resolver
FirstUtterances  == { << W_add, W_milk >>, << W_delete, W_milk >>, << W_milk >> }
SecondUtterances == { << W_add, W_milk >>, << W_mark, W_milk >> }

InitPair ==
    /\ nlp_loaded = TRUE
    /\ \E doc \in FirstUtterances : InitialState(1, 1, doc)
    /\ pc = "intent_router"
    /\ \E doc \in SecondUtterances : parked = FreshRequest(AppState(2, 0, doc))

Finished(st) == st.pc \in {"returned", "raised"}

\* the scheduler leaves the running request between two stages and resumes
\* the other one, each with the graph state its own run_graph call built
switch_request_shared_intent ==
    /\ ~Finished(parked)
    /\ parked' = Running
    /\ app_state' = parked.app_state
    /\ messages' = parked.messages
    /\ candidate_tasks' = parked.candidate_tasks
    /\ candidate_time_blocks' = parked.candidate_time_blocks
    /\ chat_response' = parked.chat_response
    /\ actions' = parked.actions
    /\ router_result' = parked.router_result
    /\ pc' = parked.pc
    /\ visited' = parked.visited
    /\ llm_calls' = parked.llm_calls
    /\ embed_calls' = parked.embed_calls
    /\ llm_content' = parked.llm_content
    /\ error' = parked.error
    /\ response' = parked.response
    /\ UNCHANGED << nlp_loaded, router_log, search, detected_intent >>
switch_request ==
    /\ ~Finished(parked)
    /\ parked' = Running
    /\ app_state' = parked.app_state
    /\ messages' = parked.messages
    /\ candidate_tasks' = parked.candidate_tasks
    /\ candidate_time_blocks' = parked.candidate_time_blocks
    /\ chat_response' = parked.chat_response
    /\ actions' = parked.actions
    /\ detected_intent' = parked.detected_intent
    /\ router_result' = parked.router_result
    /\ pc' = parked.pc
    /\ visited' = parked.visited
    /\ llm_calls' = parked.llm_calls
    /\ embed_calls' = parked.embed_calls
    /\ llm_content' = parked.llm_content
    /\ error' = parked.error
    /\ response' = parked.response
    /\ UNCHANGED << nlp_loaded, router_log, search >>

NextPair ==
    \/ intent_router_node
    \/ prepare_initial_messages
    \/ find_candidate_tasks_node
    \/ agent_node
    \/ specialized_agent_node
    \/ final_response_node
    \/ return_response
    \/ switch_request

SpecPair == InitPair /\ [][NextPair]_vars

\* ---------------------------------------------------------------- C16
\* the response a request gets when it is handled alone and the embedding
\* and reasoning engines answer as they answered it here: cand_t and cand_b
\* are the candidate lists retrieved for it, c is the reasoning reply
ResponseAlone(as, cand_t, cand_b, c) ==
    LET routed == run_intent_router(LatestText(as), nlp_loaded, Uuid(1))
        intent == routed.intent
        items  == IF intent = "DELETE_TIME_BLOCK" THEN cand_b.items
                  ELSE cand_t.items
        chosen == c.json = "object" /\ c.has_item_id
                    /\ c.item_id \notin {NullId, EmptyId}
        done(r, a) == [returned |-> TRUE, chat_response |-> r, actions |-> a]
    IN  CASE intent = "CREATE_TASK" -> done(routed.response, routed.payload)
          [] intent \in {"DELETE_TASK", "TOGGLE_TASK", "DELETE_TIME_BLOCK"} ->
               IF items = <<>>
               THEN done(Reply("not_found_item", <<>>), ActionList(<<>>))
               ELSE IF c.json = "invalid"
               THEN done(Reply("trouble", <<>>), ActionList(<<>>))
               ELSE IF chosen
               THEN done(ResolverReply(intent, c.item_id, cand_t, cand_b,
                                       as.tasks),
                         ActionList(<< IdAction(ResolverActionType(intent),
                                                c.item_id) >>))
               ELSE done(Reply("not_found_task", <<>>), ActionList(<<>>))
          [] OTHER ->
               IF c.json = "invalid"
               THEN done(Reply("agent_error", <<>>), ActionList(<<>>))
               ELSE done(IF c.has_message THEN c.message
                         ELSE Reply("processed", <<>>),
                         IF c.has_actions THEN c.actions ELSE ActionList(<<>>))

\* a response with the fresh ids of its created tasks set aside
WithoutFreshIds(r) ==
    [r EXCEPT !.actions.items =
        [i \in DOMAIN r.actions.items |->
            IF r.actions.items[i].task_id \in { Uuid(k) : k \in 1..2 }
            THEN [r.actions.items[i] EXCEPT !.task_id = Uuid(1)]
            ELSE r.actions.items[i]]]

\* a finished request got what it gets alone
AsIfAlone(st) ==
    /\ st.pc = "raised" => st.response = NoResponse
    /\ st.pc = "returned" =>
         WithoutFreshIds(st.response) =
           WithoutFreshIds(ResponseAlone(st.app_state, st.candidate_tasks,
                                         st.candidate_time_blocks,
                                         st.llm_content))

ClaimedRule(doc) ==
    LET spans   == MatcherSpans(doc)
        longest == { a \in spans :
                       \A b \in spans : (a.end - a.start) >= (b.end - b.start) }
        first   == CHOOSE a \in longest :
                       \A b \in longest : RuleIndex(a.label) <= RuleIndex(b.label)
    IN  first.label

InitSearch ==
    /\ nlp_loaded = TRUE
    /\ \E n \in 0..MaxItems, m \in 0..MaxItems :
         InitialState(n, m, << W_milk >>)
    /\ parked = NoRequest
    /\ pc = "search_call"

\* what the call leaves behind: the collection searched, top_k, and the
\* similarities computed (none when the function returned before embedding)
Searched(kind, top_k, sims) == [kind |-> kind, top_k |-> top_k, sims |-> sims]

call_find_similar_tasks ==
    /\ pc = "search_call"
    /\ \E top_k \in 1..MaxTopK, sims \in SimVectors(Len(app_state.tasks)) :
         /\ candidate_tasks' =
              CandList(find_similar_tasks(app_state.tasks, sims, top_k))
         /\ search' = Searched("tasks", top_k,
                         IF TaskSearchEmbeds(app_state.tasks) THEN sims
                         ELSE <<>>)
    /\ embed_calls' = embed_calls
                        + (IF TaskSearchEmbeds(app_state.tasks) THEN 1 ELSE 0)
    /\ pc' = "search_returned"
    /\ UNCHANGED << nlp_loaded, app_state, messages, candidate_time_blocks,
                    chat_response, actions, detected_intent, router_result,
                    visited, llm_calls, llm_content, error, response,
                    router_log, parked >>

call_find_similar_time_blocks ==
    /\ pc = "search_call"
    /\ \E top_k \in 1..MaxTopK,
          sims \in SimVectors(Len(app_state.timeBlocks)) :
         /\ candidate_time_blocks' =
              CandList(find_similar_time_blocks(app_state.timeBlocks,
                                                app_state.tasks, sims, top_k))
         /\ search' = Searched("time_blocks", top_k,
                         IF BlockSearchEmbeds(app_state.timeBlocks,
                                              app_state.tasks)
                         THEN sims ELSE <<>>)
    /\ embed_calls' = embed_calls
                        + (IF BlockSearchEmbeds(app_state.timeBlocks,
                                                app_state.tasks)
                           THEN 1 ELSE 0)
    /\ pc' = "search_returned"
    /\ UNCHANGED << nlp_loaded, app_state, messages, candidate_tasks,
                    chat_response, actions, detected_intent, router_result,
                    visited, llm_calls, llm_content, error, response,
                    router_log, parked >>

NextSearch == call_find_similar_tasks \/ call_find_similar_time_blocks

SpecSearch == InitSearch /\ [][NextSearch]_vars

\* ---------------------------------------------------------------- C22
\* the collection the call searched and the list it returned
SearchedItems ==
    IF search.kind = "tasks" THEN app_state.tasks ELSE app_state.timeBlocks
FoundItems ==
    IF search.kind = "tasks" THEN candidate_tasks.items
    ELSE candidate_time_blocks.items

\* the similarity computed for an item of the searched collection
SimilarityOf(item) ==
    search.sims[CHOOSE i \in DOMAIN SearchedItems : SearchedItems[i] = item]

\* the list returned holds min(top_k, n) distinct items of the collection,
\* in non-increasing order of similarity, and every item left out is at most
\* as similar as every item returned
TopKOfCollection ==
        /\ Len(FoundItems) =
             (IF search.top_k < Len(SearchedItems) THEN search.top_k
              ELSE Len(SearchedItems))
        /\ \A r \in DOMAIN FoundItems :
             \E i \in DOMAIN SearchedItems : SearchedItems[i] = FoundItems[r]
        /\ \A r \in DOMAIN FoundItems : \A q \in DOMAIN FoundItems :
             FoundItems[r] = FoundItems[q] => r = q
        /\ Len(search.sims) = Len(SearchedItems)
        /\ \A r \in DOMAIN FoundItems : \A q \in DOMAIN FoundItems :
             r < q => SimilarityOf(FoundItems[r]) >= SimilarityOf(FoundItems[q])
        /\ \A i \in DOMAIN SearchedItems :
             (\A r \in DOMAIN FoundItems : FoundItems[r] # SearchedItems[i]) =>
                \A r \in DOMAIN FoundItems :
                    search.sims[i] <= SimilarityOf(FoundItems[r])

\* C22 as stated: every search over n >= 1 items with top_k >= 1 returns the
\* min(top_k, n) most similar items of the collection, most similar first.
C22_TopKBySimilarity ==
    (pc = "search_returned" /\ Len(SearchedItems) >= 1) => TopKOfCollection

\* C22, amended: find_similar_tasks over n >= 1 tasks, and
\* find_similar_time_blocks over n >= 1 time blocks when the task list is
\* not empty, return the min(top_k, n) most similar items, most similar
\* first; find_similar_time_blocks with an empty task list returns an empty
\* list whatever the time blocks.
C22_TopKWhenTasksExist ==
    (pc = "search_returned" /\ Len(SearchedItems) >= 1) =>
        IF search.kind = "time_blocks" /\ app_state.tasks = <<>>
        THEN FoundItems = <<>> /\ search.sims = <<>>
        ELSE TopKOfCollection

C22_Witness ==
    /\ pc = "search_returned"
    /\ search.kind = "time_blocks"
    /\ Len(app_state.timeBlocks) = 3
    /\ Len(app_state.tasks) = 1
    /\ search.top_k = 2
    /\ search.sims = << 1, 3, 2 >>
    /\ candidate_time_blocks.items
         = << app_state.timeBlocks[2], app_state.timeBlocks[3] >>

\* ---------------------------------------------------------------- C23
\* C23: a search over an empty collection returns an empty list and makes
\* no embedding call, and a search that makes an embedding call was given a
\* collection that is not empty.
C23_EmptyCollectionNoEmbedding ==
    pc = "search_returned" =>
        /\ SearchedItems = <<>> => (FoundItems = <<>> /\ embed_calls = 0)
        /\ embed_calls > 0 => SearchedItems # <<>>
        /\ embed_calls > 0 <=> search.sims # <<>>

C23_Witness ==
    /\ pc = "search_returned"
    /\ search.kind = "tasks"
    /\ app_state.tasks = <<>>
    /\ app_state.timeBlocks # <<>>
    /\ candidate_tasks = CandList(<<>>)
    /\ embed_calls = 0

\* ---------------------------------------------------------------- C24
\* the request is a DELETE_TASK or TOGGLE_TASK request whose utterance holds
\* the characters "add" or "create", as a word or inside one
PrefilteredRequest ==
    /\ detected_intent \in {"DELETE_TASK", "TOGGLE_TASK"}
    /\ \E i \in DOMAIN LatestText(app_state) :
         LatestText(app_state)[i].lower \in CreationSubstringWords

\* C24: for such a request no task is searched and no reasoning call is
\* made; once candidate retrieval has returned the task candidate list is
\* empty and the only embedding search is the one over the time blocks; the
\* response returned has zero actions and the could-not-find reply; and the
\* only error that can end the request is a failure of that embedding search.
C24_CreationWordsBlockResolver ==
    PrefilteredRequest =>
        /\ llm_calls = 0
        /\ llm_content = NoContent
        /\ embed_calls <= 1
        /\ embed_calls = 1 =>
             (app_state.timeBlocks # <<>> /\ app_state.tasks # <<>>)
        /\ (NodeRan("find_candidate_tasks") /\ error = "none") =>
             candidate_tasks = CandList(<<>>)
        /\ LastNode \in {"specialized_agent", "final_response"} =>
             /\ chat_response = Reply("not_found_item", <<>>)
             /\ actions = ActionList(<<>>)
        /\ pc = "returned" =>
             response = [returned |-> TRUE,
                         chat_response |-> Reply("not_found_item", <<>>),
                         actions |-> ActionList(<<>>)]
        /\ pc = "raised" =>
             (error = "UpstreamError" /\ LastNode = "find_candidate_tasks")

C24_Witness ==
    /\ detected_intent = "TOGGLE_TASK"
    /\ LatestText(app_state) = << W_mark, W_address >>
    /\ Len(app_state.tasks) = 2
    /\ pc = "returned"
    /\ response.chat_response = Reply("not_found_item", <<>>)
    /\ response.actions = ActionList(<<>>)
    /\ llm_calls = 0

\* ---------------------------------------------------------------- C25
\* C25: detected_intent changes only in the step of intent_router_node, from
\* the initial "" to one of the five intent tags, and holds that tag, the one
\* run_intent_router returned, in every later state of the request.
C25_IntentAssignedOnce ==
    /\ [](IF NodeRan("intent_router")
          THEN /\ detected_intent \in
                    {"CREATE_TASK", "DELETE_TASK", "TOGGLE_TASK",
                     "DELETE_TIME_BLOCK", "AGENT_FALLBACK"}
               /\ detected_intent = router_result.intent
          ELSE detected_intent = "")
    /\ [][ detected_intent' # detected_intent =>
             (pc = "intent_router" /\ visited = <<>>) ]_vars

C25_Witness ==
    /\ detected_intent = "TOGGLE_TASK"
    /\ visited = << "intent_router", "find_candidate_tasks",
                    "specialized_agent", "final_response" >>
    /\ llm_calls = 1
    /\ pc = "returned"

\* ---------------------------------------------------------------- C26
\* C26: the step of final_response_node changes no field of the graph state;
\* run_graph returns the chat_response and the action list of the final
\* state; and these are what the last stage before final_response wrote: the
\* router's reply and payload on the shortcut, otherwise what the Focused
\* Resolver or the General Agent made of its candidates and reasoning reply.
C26_FinalResponsePackagesOnly ==
    /\ [](pc = "returned" =>
            /\ response.chat_response = chat_response
            /\ response.actions = actions
            /\ response = ResponseAlone(app_state, candidate_tasks,
                                        candidate_time_blocks, llm_content))
    /\ [][ /\ pc = "final_response" =>
                /\ pc' = "END"
                /\ UNCHANGED << app_state, messages, candidate_tasks,
                                candidate_time_blocks, chat_response, actions,
                                detected_intent >>
           /\ pc' = "returned" =>
                response' = [returned |-> TRUE,
                             chat_response |-> chat_response,
                             actions |-> actions] ]_vars

C26_Witness ==
    /\ pc = "returned"
    /\ visited = << "intent_router", "find_candidate_tasks",
                    "specialized_agent", "final_response" >>
    /\ response.chat_response = Reply("deleted", TitleOf(1))
    /\ Len(response.actions.items) = 1
    /\ response.actions.items[1].action_type = "deleteTask"

\* ---------------------------------------------------------------- C27
\* C27: no step of a request changes app_state.
C27_AppStateReadOnly == [][ app_state' = app_state ]_vars

C27_Witness ==
    /\ pc = "returned"
    /\ NodeRan("agent")
    /\ Len(app_state.tasks) = 1
    /\ app_state.tasks[1].id = TaskId(1)
    /\ Len(response.actions.items) = 1
    /\ response.actions.items[1].action_type = "deleteTask"
    /\ response.actions.items[1].id = TaskId(1)

\* ---------------------------------------------------------------- C28
\* C28, on finite runs: the first stage is intent_router; no stage runs
\* twice; no stage runs after final_response; and unless an embedding or
\* reasoning call failed, a request does not end before final_response ran.
C28_ReachesFinalResponse ==
    /\ visited # <<>> => visited[1] = "intent_router"
    /\ \A i \in DOMAIN visited : \A j \in DOMAIN visited :
         visited[i] = visited[j] => i = j
    /\ \A i \in DOMAIN visited :
         visited[i] = "final_response" => i = Len(visited)
    /\ pc \in {"END", "returned"} => LastNode = "final_response"
    /\ (pc = "raised" /\ error # "UpstreamError") => NodeRan("final_response")

\* ---------------------------------------------------------------- C29
\* the Focused Resolver ran and had no candidate for the intent
ResolverHadNoCandidate ==
    /\ NodeRan("specialized_agent")
    /\ \/ detected_intent \in {"DELETE_TASK", "TOGGLE_TASK"}
            /\ candidate_tasks.items = <<>>
       \/ detected_intent = "DELETE_TIME_BLOCK"
            /\ candidate_time_blocks.items = <<>>

\* C29: a request never makes more than one reasoning call; the CREATE_TASK
\* shortcut makes no reasoning and no embedding call; once a resolution
\* stage has run, the request has made no reasoning call when the Focused
\* Resolver had no candidate and exactly one otherwise; before that, none.
C29_AtMostOneReasoningCall ==
    /\ llm_calls <= 1
    /\ detected_intent = "CREATE_TASK" => (llm_calls = 0 /\ embed_calls = 0)
    /\ IF NodeRan("agent") \/ NodeRan("specialized_agent")
       THEN llm_calls = (IF ResolverHadNoCandidate THEN 0 ELSE 1)
       ELSE llm_calls = 0

C29_Witness ==
    /\ pc = "returned"
    /\ detected_intent = "CREATE_TASK"
    /\ llm_calls = 0
    /\ embed_calls = 0
    /\ Len(app_state.tasks) = 2
    /\ Len(app_state.timeBlocks) = 1
    /\ Len(response.actions.items) = 1

\* ---------------------------------------------------------------- C30
\* C30: run_intent_router never returns DELETE_TIME_BLOCK; after the router
\* ran detected_intent is CREATE_TASK, DELETE_TASK, TOGGLE_TASK or
\* AGENT_FALLBACK; the Focused Resolver never writes the reply of its
\* time-block branch; and a deleteTimeBlock action is in the state only
\* after the General Agent ran.
C30_NoTimeBlockIntent ==
    /\ router_result.intent # "DELETE_TIME_BLOCK"
    /\ \A k \in DOMAIN router_log : router_log[k].intent # "DELETE_TIME_BLOCK"
    /\ detected_intent \in
         {"", "CREATE_TASK", "DELETE_TASK", "TOGGLE_TASK", "AGENT_FALLBACK"}
    /\ NodeRan("intent_router") => detected_intent # ""
    /\ chat_response.kind # "removed"
    /\ actions.kind = "list" =>
         \A i \in DOMAIN actions.items :
             actions.items[i].action_type = "deleteTimeBlock" =>
                 NodeRan("agent")

C30_Witness ==
    /\ pc = "returned"
    /\ detected_intent = "AGENT_FALLBACK"
    /\ nlp_loaded
    /\ NodeRan("agent")
    /\ Len(app_state.timeBlocks) = 1
    /\ Len(response.actions.items) = 1
    /\ response.actions.items[1].action_type = "deleteTimeBlock"
    /\ response.actions.items[1].id = BlockId(1)

====
